---- MODULE Spec2Model ----
(***************************************************************************)
(* Model of the stateful controls of the onboarding platform:              *)
(*   - CounterTimer  (the animated counter),                               *)
(*   - FilePicker    (the file selection set),                             *)
(*   - CustomTextInput (the text field and its validation engine),         *)
(*   - CalendarPicker (the date field),                                    *)
(*   - OnboardingScreen (the form that holds the fields and submits).      *)
(* Each control has its own specification; the variables of the other      *)
(* controls stay at their initial values. The screen runs its fields       *)
(* together.                                                               *)
(***************************************************************************)
EXTENDS Integers, Sequences, FiniteSets, TLC

VARIABLES
    \* ---- CounterTimer ----
    state,          \* React state: "idle" | "running" | "paused" | "completed"
    progress,       \* the shared value, in units of 1/One
    displayValue,   \* React state displayValue (the formatted number)
    anim,           \* the interpolation in flight on the animation thread, or NoAnim
    jsQueue,        \* runOnJS calls posted by the animation thread, not yet run on the JS thread
    hasOnComplete,  \* whether the onComplete prop was given
    nextRun,        \* history: id the next interpolation gets
    minValidRun,    \* history: interpolations with a smaller id were begun before the last reset/restart
    runStatus,      \* history: per interpolation "unborn" | "active" | "cancelled" | "finished"
    setCompletedBy, \* history: per interpolation, number of setState('completed') calls run for it
    onCompleteBy,   \* history: per interpolation, number of onComplete calls run for it
    lastMsg,        \* history: the runOnJS call run last
    before,         \* history: what the last start/stop/reset/restart handler found when called
    lastOp,         \* history: the handler or step that ran last
    \* ---- FilePicker ----
    files,          \* React state files
    error,          \* React state error
    isTouched,      \* React state isTouched
    reported,       \* the list last passed to onChange
    required,       \* prop required
    allowedTypes,   \* prop allowedTypes
    pending,        \* the handlePickFiles call waiting for the document picker, with the files it closed over, or NoCall
    lastPick,       \* history: what handlePickFiles worked on, when it was the last step
    fBefore,        \* history: files, reported and error found by the last FilePicker step
    fLastOp,        \* history: the FilePicker step that ran last
    \* ---- CustomTextInput ----
    internalValue,  \* React state internalValue
    externalValue,  \* prop value, or Undefined
    isFocused,      \* React state isFocused
    isTouchedText,  \* React state isTouched of the text input
    errors,         \* React state errors
    validators,     \* prop validators
    formValue,      \* the text last passed to onChangeText
    formValid,      \* the flag last passed to onValidate ("none" before the first call)
    everBlurred,    \* history: handleBlur has run
    tLastOp,        \* history: the text input step that ran last
    \* ---- validate, called on its own ----
    vText,          \* argument text
    vRules,         \* the validators the function closes over
    vResult,        \* the array returned, once called
    \* ---- CalendarPicker ----
    dateFormat,     \* prop format
    dateRequired,   \* prop required
    minDate,        \* prop minDate, or NoDate
    maxDate,        \* prop maxDate, or NoDate
    tzWest,         \* the device's time zone lies west of Greenwich
    constHoisted,   \* the build turns block-scoped const into function-scoped var
    textValue,      \* React state textValue
    dateError,      \* React state error
    isTouchedDate,  \* React state isTouched of the date field
    isModalVisible, \* React state isModalVisible
    startDate,      \* the form's startDate: the text last passed to onChange
    dateAlive,      \* the application has not been ended by an uncaught exception
    dLastDay,       \* history: the day pressed last in the calendar
    dLastOp,        \* history: the date field step that ran last
    dRaised,        \* history: the handler that ran last ended with an uncaught exception
    dCleared,       \* history: handleClear has run, and neither handleBlur nor handleDateSelect since
    \* ---- formatDate, parseDate, validateDate called on their own ----
    dfInput,        \* the Date or the text given
    dfOut,          \* what the call returned, once made
    \* ---- validTarget and validDuration computed on their own ----
    durationSec,    \* prop durationSec, in hundredths of a second, or NaN
    targetNumber,   \* prop targetNumber, or NaN
    cfgOut,         \* validDuration and validTarget, once computed
    \* ---- OnboardingScreen: its second text input (email) and its own state ----
    email,          \* React state email of the screen, the value prop of the email input
    isTouchedEmail, \* React state isTouched of the email input
    emailErrors,    \* React state errors of the email input
    isEmailValid,   \* React state isEmailValid of the screen
    isSubmitting,   \* React state isSubmitting
    showSuccess,    \* React state showSuccess
    submittedData   \* React state submittedData: the data of the last successful response, or NoData

counterVars == <<state, progress, displayValue, anim, jsQueue, hasOnComplete, nextRun,
                 minValidRun, runStatus, setCompletedBy, onCompleteBy, lastMsg,
                 before, lastOp>>

fileVars == <<files, error, isTouched, reported, required, allowedTypes, pending, lastPick,
              fBefore, fLastOp>>

textVars == <<internalValue, externalValue, isFocused, isTouchedText, errors, validators,
              formValue, formValid, everBlurred, tLastOp>>

validateVars == <<vText, vRules, vResult>>

dateVars == <<dateFormat, dateRequired, minDate, maxDate, tzWest, constHoisted, textValue,
              dateError, isTouchedDate, isModalVisible, startDate, dateAlive, dLastDay,
              dLastOp, dRaised, dCleared, dfInput, dfOut>>

configVars == <<durationSec, targetNumber, cfgOut>>

screenVars == <<email, isTouchedEmail, emailErrors, isEmailValid, isSubmitting, showSuccess,
                submittedData>>

vars == <<counterVars, fileVars, textVars, validateVars, dateVars, configVars, screenVars>>

\* a step of one control leaves the other controls alone
OnlyCounter == UNCHANGED <<fileVars, textVars, validateVars, dateVars, configVars, screenVars>>
OnlyFiles == UNCHANGED <<counterVars, textVars, validateVars, dateVars, configVars, screenVars>>
OnlyText == UNCHANGED <<counterVars, fileVars, validateVars, dateVars, configVars, screenVars>>
OnlyValidate == UNCHANGED <<counterVars, fileVars, textVars, dateVars, configVars, screenVars>>
OnlyDate == UNCHANGED <<counterVars, fileVars, textVars, validateVars, configVars, screenVars>>
OnlyConfig == UNCHANGED <<counterVars, fileVars, textVars, validateVars, dateVars, screenVars>>

(***************************************************************************)
(* CounterTimer                                                            *)
(*                                                                         *)
(* Two threads: the JS thread runs the handlers (each one atomically, on   *)
(* the state of the latest render), the animation thread advances the      *)
(* interpolation frame by frame (Tick). The frame that reaches the end     *)
(* value runs the withTiming callback with finished = true; the callback   *)
(* posts its calls to the JS thread with runOnJS, and they run there later *)
(* (DeliverJS), in the order posted, possibly after other handlers.        *)
(* cancelAnimation, and an assignment to progress.value, end the           *)
(* interpolation in flight with finished = false. Easing is linear.        *)
(* Time is counted in frames and progress in units of 1/One.               *)
(***************************************************************************)

\* Bounds of the model
MaxRuns == 3          \* interpolations begun in one behaviour
DurationTicks == 3    \* animation frames the configured duration lasts
Target == 1           \* validTarget

\* The end value 1 of withTiming(1, ...), as the number of progress units in 1
One == 60

TimerStates == {"idle", "running", "paused", "completed"}

NoAnim == [run |-> 0, from |-> 0, dur |-> 0, elapsed |-> 0]
NoMsg == [kind |-> "none", run |-> 0]

Runs == 1..MaxRuns

\* format = (val) => Math.round(val).toString(), applied to progress.value * validTarget
Format(p) == (2 * p * Target + One) \div (2 * One)

\* validDuration * 1000, in frames
FullDuration == DurationTicks

\* a resume that runs over the full duration again
RemainingDurationFull(p) == FullDuration

\* validDuration * 1000 * (1 - progress.value)
RemainingDuration(p) == (FullDuration * (One - p)) \div One

\* an interpolation that runs from the end value back to the start value
TimingValueReversed(a, e) ==
    IF e >= a.dur THEN One
    ELSE One - ((One - a.from) * e) \div a.dur

\* value of a linear withTiming(1, {duration}) started at a.from after e frames
TimingValue(a, e) ==
    IF e >= a.dur THEN One
    ELSE a.from + ((One - a.from) * e) \div a.dur

\* a callback that does not test finished
CallbackUnguarded(finished, run, q) ==
    LET q1 == Append(q, [kind |-> "setState", run |-> run])
    IN IF hasOnComplete THEN Append(q1, [kind |-> "onComplete", run |-> run]) ELSE q1

\* the worklet callback given to withTiming: posts the completion to the JS thread
Callback(finished, run, q) ==
    IF finished
    THEN LET q1 == Append(q, [kind |-> "setState", run |-> run])
         IN IF hasOnComplete THEN Append(q1, [kind |-> "onComplete", run |-> run]) ELSE q1
    ELSE q

\* cancelAnimation(progress), also done by an assignment to progress.value:
\* the interpolation in flight, if any, ends with finished = false
CancelQueue(a, q) == IF a.run = 0 THEN q ELSE Callback(FALSE, a.run, q)
CancelStatus(a, rs) == IF a.run = 0 THEN rs ELSE [rs EXCEPT ![a.run] = "cancelled"]

\* withTiming(1, {duration: d}) assigned to progress.value when it holds p
NewAnim(p, d) == [run |-> nextRun, from |-> p, dur |-> d, elapsed |-> 0]

\* what a handler finds when it is called
Snapshot == [state |-> state, progress |-> progress, run |-> anim.run,
             afterReset |-> (lastOp = "reset")]

InitCounter ==
    /\ state = "idle"
    /\ progress = 0
    /\ displayValue = 0
    /\ anim = NoAnim
    /\ jsQueue = <<>>
    /\ hasOnComplete \in BOOLEAN
    /\ nextRun = 1
    /\ minValidRun = 1
    /\ runStatus = [r \in Runs |-> "unborn"]
    /\ setCompletedBy = [r \in Runs |-> 0]
    /\ onCompleteBy = [r \in Runs |-> 0]
    /\ lastMsg = NoMsg
    /\ before = [state |-> "idle", progress |-> 0, run |-> 0, afterReset |-> FALSE]
    /\ lastOp = "init"

\* the interpolation a begins; the one it replaces, if any, ends with finished = false
Begin(a) ==
    /\ anim' = a
    /\ jsQueue' = CancelQueue(anim, jsQueue)
    /\ runStatus' = [CancelStatus(anim, runStatus) EXCEPT ![a.run] = "active"]
    /\ nextRun' = nextRun + 1

\* cancelAnimation(progress) with no new interpolation
Cancel ==
    /\ anim' = NoAnim
    /\ jsQueue' = CancelQueue(anim, jsQueue)
    /\ runStatus' = CancelStatus(anim, runStatus)
    /\ UNCHANGED nextRun

\* a start that begins a new interpolation in state running too
HandleStartAlsoWhileRunning ==
    /\ OnlyCounter
    /\ lastOp' = "start"
    /\ before' = Snapshot
    /\ UNCHANGED <<displayValue, hasOnComplete, minValidRun, setCompletedBy, onCompleteBy, lastMsg>>
    /\ \/ /\ state \in {"idle", "completed", "running"}
          /\ nextRun <= MaxRuns
          /\ state' = "running"
          /\ progress' = 0
          /\ Begin(NewAnim(0, FullDuration))
       \/ /\ state = "paused"
          /\ nextRun <= MaxRuns
          /\ state' = "running"
          /\ progress' = progress
          /\ Begin(NewAnim(progress, RemainingDuration(progress)))

HandleStart ==
    /\ OnlyCounter
    /\ lastOp' = "start"
    /\ before' = Snapshot
    /\ UNCHANGED <<displayValue, hasOnComplete, minValidRun, setCompletedBy, onCompleteBy, lastMsg>>
    /\ \/ /\ state \in {"idle", "completed"}
          /\ nextRun <= MaxRuns
          /\ state' = "running"
          /\ progress' = 0
          /\ Begin(NewAnim(0, FullDuration))
       \/ /\ state = "paused"
          /\ nextRun <= MaxRuns
          /\ state' = "running"
          /\ progress' = progress
          /\ Begin(NewAnim(progress, RemainingDuration(progress)))
       \/ /\ state = "running"
          /\ UNCHANGED <<state, progress, anim, jsQueue, runStatus, nextRun>>

HandleStop ==
    /\ OnlyCounter
    /\ lastOp' = "stop"
    /\ before' = Snapshot
    /\ UNCHANGED <<progress, displayValue, hasOnComplete, minValidRun, setCompletedBy,
                   onCompleteBy, lastMsg>>
    /\ \/ /\ state = "running"
          /\ state' = "paused"
          /\ Cancel
       \/ /\ state # "running"
          /\ UNCHANGED <<state, anim, jsQueue, runStatus, nextRun>>

\* a reset that leaves progress where it is
HandleResetKeepsProgress ==
    /\ OnlyCounter
    /\ lastOp' = "reset"
    /\ before' = Snapshot
    /\ state' = "idle"
    /\ Cancel
    /\ progress' = progress
    /\ displayValue' = 0
    /\ minValidRun' = nextRun
    /\ UNCHANGED <<hasOnComplete, setCompletedBy, onCompleteBy, lastMsg>>

\* a reset that leaves the interpolation running
HandleResetNoCancel ==
    /\ OnlyCounter
    /\ lastOp' = "reset"
    /\ before' = Snapshot
    /\ state' = "idle"
    /\ progress' = 0
    /\ displayValue' = 0
    /\ minValidRun' = nextRun
    /\ UNCHANGED <<anim, jsQueue, runStatus, nextRun>>
    /\ UNCHANGED <<hasOnComplete, setCompletedBy, onCompleteBy, lastMsg>>

HandleReset ==
    /\ OnlyCounter
    /\ lastOp' = "reset"
    /\ before' = Snapshot
    /\ state' = "idle"
    /\ Cancel
    /\ progress' = 0
    /\ displayValue' = 0
    /\ minValidRun' = nextRun
    /\ UNCHANGED <<hasOnComplete, setCompletedBy, onCompleteBy, lastMsg>>

\* a restart that does not put progress back to 0
HandleRestartKeepsProgress ==
    /\ OnlyCounter
    /\ nextRun <= MaxRuns
    /\ lastOp' = "restart"
    /\ before' = Snapshot
    /\ state' = "running"
    /\ progress' = progress
    /\ Begin(NewAnim(progress, FullDuration))
    /\ minValidRun' = nextRun
    /\ UNCHANGED <<displayValue, hasOnComplete, setCompletedBy, onCompleteBy, lastMsg>>

HandleRestart ==
    /\ OnlyCounter
    /\ nextRun <= MaxRuns
    /\ lastOp' = "restart"
    /\ before' = Snapshot
    /\ state' = "running"
    /\ progress' = 0
    /\ Begin(NewAnim(0, FullDuration))
    /\ minValidRun' = nextRun
    /\ UNCHANGED <<displayValue, hasOnComplete, setCompletedBy, onCompleteBy, lastMsg>>

\* one frame of the animation thread; the frame that reaches the end value runs the
\* callback with finished = true
Tick ==
    /\ OnlyCounter
    /\ anim.run # 0
    /\ lastOp' = "tick"
    /\ LET e == anim.elapsed + 1
       IN /\ progress' = TimingValue(anim, e)
          /\ IF e >= anim.dur
             THEN /\ anim' = NoAnim
                  /\ jsQueue' = Callback(TRUE, anim.run, jsQueue)
                  /\ runStatus' = [runStatus EXCEPT ![anim.run] = "finished"]
             ELSE /\ anim' = [anim EXCEPT !.elapsed = e]
                  /\ UNCHANGED <<jsQueue, runStatus>>
    /\ UNCHANGED <<state, displayValue, hasOnComplete, nextRun, minValidRun, setCompletedBy,
                   onCompleteBy, lastMsg, before>>

\* the JS thread runs the oldest call posted with runOnJS
DeliverJS ==
    /\ OnlyCounter
    /\ jsQueue # <<>>
    /\ lastOp' = "deliver"
    /\ lastMsg' = Head(jsQueue)
    /\ jsQueue' = Tail(jsQueue)
    /\ IF Head(jsQueue).kind = "setState"
       THEN /\ state' = "completed"
            /\ setCompletedBy' = [setCompletedBy EXCEPT ![Head(jsQueue).run] = @ + 1]
            /\ UNCHANGED onCompleteBy
       ELSE /\ onCompleteBy' = [onCompleteBy EXCEPT ![Head(jsQueue).run] = @ + 1]
            /\ UNCHANGED <<state, setCompletedBy>>
    /\ UNCHANGED <<progress, displayValue, anim, hasOnComplete, nextRun, minValidRun,
                   runStatus, before>>

\* the setInterval callback of the display sampler
Sample ==
    /\ OnlyCounter
    /\ lastOp' = "sample"
    /\ displayValue' = Format(progress)
    /\ UNCHANGED <<state, progress, anim, jsQueue, hasOnComplete, nextRun, minValidRun,
                   runStatus, setCompletedBy, onCompleteBy, lastMsg, before>>

NextCounter ==
    \/ HandleStart
    \/ HandleStop
    \/ HandleReset
    \/ HandleRestart
    \/ Tick
    \/ DeliverJS
    \/ Sample

(***************************************************************************)
(* Properties of CounterTimer                                              *)
(***************************************************************************)

\* C1: after restart() or reset(), no completion call (setState('completed') or
\* onComplete) posted by an interpolation begun before that call is run on the JS thread.
C1_NoStaleCompletion ==
    lastOp = "deliver" => lastMsg.run >= minValidRun

\* C2: whenever state is completed, progress is 1.
C2_CompletedImpliesProgressOne ==
    state = "completed" => progress = One

\* C6: right after restart(), from whatever state, state is running, progress is 0, every
\* earlier interpolation is no longer in flight, and a fresh interpolation from 0 over the
\* full configured duration is in flight.
C6_RestartYieldsFreshFullRun ==
    lastOp = "restart" =>
        /\ state = "running"
        /\ progress = 0
        /\ anim.run = nextRun - 1
        /\ anim.run > before.run
        /\ anim.from = 0
        /\ anim.elapsed = 0
        /\ anim.dur = DurationTicks
        /\ \A r \in Runs : r # anim.run => runStatus[r] # "active"

C6_Witness ==
    /\ lastOp = "restart"
    /\ before.state = "running"
    /\ before.progress > 0
    /\ before.run # 0
    /\ runStatus[before.run] = "cancelled"

\* C7: right after reset(), from whatever state, state is idle, progress is 0 and no
\* interpolation is in flight; a reset() that directly follows a reset() changes none of them.
C7_ResetIdempotent ==
    /\ lastOp = "reset" =>
        /\ state = "idle"
        /\ progress = 0
        /\ anim = NoAnim
        /\ \A r \in Runs : runStatus[r] # "active"
    /\ (lastOp = "reset" /\ before.afterReset) =>
        /\ state = before.state
        /\ progress = before.progress
        /\ anim.run = before.run

C7_Witness ==
    /\ lastOp = "reset"
    /\ before.afterReset
    /\ \E r \in Runs : runStatus[r] = "cancelled"

\* C8: right after start() called in state paused with progress p, state is running,
\* progress is still p, and the interpolation in flight starts from p and lasts
\* configuredDuration * (1 - p), which is shorter than the full duration when p > 0.
C8_ResumeOverRemainingDuration ==
    (lastOp = "start" /\ before.state = "paused") =>
        /\ state = "running"
        /\ progress = before.progress
        /\ anim.run # 0
        /\ anim.from = before.progress
        /\ anim.elapsed = 0
        /\ anim.dur * One = DurationTicks * (One - before.progress)
        /\ (before.progress > 0 => anim.dur < DurationTicks)

C8_Witness ==
    /\ lastOp = "start"
    /\ before.state = "paused"
    /\ before.progress > 0
    /\ before.progress < One
    /\ anim.dur < DurationTicks

\* the runOnJS calls of kind k posted for interpolation r that are still to run
Pending(k, r) == {i \in 1..Len(jsQueue) : jsQueue[i].kind = k /\ jsQueue[i].run = r}

\* C9 (safety): for every interpolation, setState('completed') and onComplete are each
\* posted and run at most once in total, and not at all unless the interpolation reached 1;
\* a cancelled interpolation has none.
C9_AtMostOnce ==
    \A r \in Runs :
        /\ setCompletedBy[r] + Cardinality(Pending("setState", r)) <= 1
        /\ onCompleteBy[r] + Cardinality(Pending("onComplete", r)) <= 1
        /\ runStatus[r] = "finished" =>
              /\ setCompletedBy[r] + Cardinality(Pending("setState", r)) = 1
              /\ hasOnComplete => onCompleteBy[r] + Cardinality(Pending("onComplete", r)) = 1
        /\ runStatus[r] # "finished" =>
              /\ setCompletedBy[r] = 0 /\ Pending("setState", r) = {}
              /\ onCompleteBy[r] = 0 /\ Pending("onComplete", r) = {}

\* C9: every interpolation that reaches 1 gets exactly one setState('completed') and (when
\* onComplete is given) exactly one onComplete call, an interpolation cancelled by
\* stop/reset/restart gets none, and so the onComplete calls never outnumber the
\* interpolations that reached 1.
C9_OneShotCompletion ==
    /\ []C9_AtMostOnce
    /\ \A r \in Runs :
          (runStatus[r] = "finished") ~>
              (setCompletedBy[r] = 1 /\ (hasOnComplete => onCompleteBy[r] = 1))

C9_Witness ==
    /\ hasOnComplete
    /\ \E r, c \in Runs :
          /\ runStatus[r] = "finished"
          /\ setCompletedBy[r] = 1
          /\ onCompleteBy[r] = 1
          /\ runStatus[c] = "cancelled"
          /\ c < r

\* C23: in every state, state idle implies progress 0: initially and after every reset,
\* whatever frames and late completion calls come between.
C23_IdleImpliesProgressZero == state = "idle" => progress = 0

C23_Witness ==
    /\ state = "idle"
    /\ lastOp = "deliver"
    /\ before.afterReset = FALSE
    /\ before.progress > 0
    /\ progress = 0

\* C24 as stated: across every step that begins and ends in state running, progress does
\* not decrease, whatever handler is called while running.
C24_MonotoneWhileRunning ==
    [][(state = "running" /\ state' = "running") => progress' >= progress]_vars

\* C24 as amended: across every step that begins and ends in state running and is not a
\* restart, progress does not decrease.
C24_MonotoneWithinARun ==
    [][(state = "running" /\ state' = "running" /\ lastOp' # "restart")
          => progress' >= progress]_vars

C24_Witness ==
    /\ state = "running"
    /\ lastOp = "tick"
    /\ anim.from > 0
    /\ progress > anim.from
    /\ progress < One

\* C25: start called in state running, and stop called in state idle, paused or completed,
\* change nothing: state, progress, the interpolation in flight, the posted calls and the
\* displayed value stay as they are.
C25_StartAndStopIdempotent ==
    [][(\/ lastOp' = "start" /\ state = "running"
        \/ lastOp' = "stop" /\ state # "running")
          => UNCHANGED <<state, progress, anim, jsQueue, displayValue>>]_vars

C25_Witness ==
    /\ lastOp = "start"
    /\ before.state = "running"
    /\ state = "running"
    /\ anim.run = before.run
    /\ anim.elapsed > 0
    /\ progress = before.progress

\* C26: stop in state running moves to paused, ends the interpolation in flight and leaves
\* progress at its value; while paused, until the next start, reset or restart, progress
\* does not change and no completion call is run.
C26_StopFreezesProgress ==
    [][/\ (lastOp' = "stop" /\ state = "running")
            => (state' = "paused" /\ anim' = NoAnim /\ progress' = progress)
       /\ (state = "paused" /\ lastOp' \notin {"start", "reset", "restart"})
            => (progress' = progress /\ lastOp' # "deliver")]_vars

\* C27: the display sampler takes a sample only while an interpolation is in flight.
C27_SamplerOnlyWhileAnimating == lastOp = "sample" => anim.run # 0

(***************************************************************************)
(* FilePicker                                                              *)
(***************************************************************************)

\* Props of the component, in size units
MaxFiles == 3
MaxSizePerFile == 2
MaxTotalSize == 4

\* Bound of the model: assets one picker result holds at most
MaxPick == MaxFiles + 1

NoMime == [base |-> "", sub |-> ""]
Mime(b, s) == [base |-> b, sub |-> s]
Name(stem, ext) == [stem |-> stem, ext |-> ext]

\* the assets the document picker can return (size 0: the asset has no size)
Assets ==
    { [name |-> Name("a", "png"), size |-> 1, mime |-> Mime("image", "png")],
      [name |-> Name("b", "PDF"), size |-> MaxSizePerFile, mime |-> NoMime],
      [name |-> Name("c", "png"), size |-> MaxSizePerFile + 1, mime |-> Mime("image", "png")],
      [name |-> Name("d", "zip"), size |-> 0, mime |-> Mime("application", "zip")] }

\* allowedTypes: a mime type (sub "*" is the wildcard base/*) or an extension .ext
MimePattern(b, s) == [kind |-> "mime", base |-> b, sub |-> s, ext |-> ""]
ExtPattern(e) == [kind |-> "ext", base |-> "", sub |-> "", ext |-> e]
AnyType == MimePattern("*", "*")
AllowedConfigs == { <<AnyType>>, <<MimePattern("image", "*"), ExtPattern("pdf")>> }

ErrNone == [msg |-> "", name |-> "", a |-> 0, b |-> 0]
ErrRequired == [msg |-> "At least one file is required", name |-> "", a |-> 0, b |-> 0]
ErrMaxFiles == [msg |-> "Maximum N file(s) allowed", name |-> "", a |-> MaxFiles, b |-> 0]
ErrPerFile(f) == [msg |-> "NAME exceeds maximum size of S", name |-> f.name.stem, a |-> MaxSizePerFile, b |-> 0]
ErrTotal(t) == [msg |-> "Total size T exceeds maximum of M", name |-> "", a |-> t, b |-> MaxTotalSize]

RECURSIVE SumSizes(_)
\* selectedFiles.reduce((sum, file) => sum + file.size, 0)
SumSizes(fs) == IF fs = <<>> THEN 0 ELSE Head(fs).size + SumSizes(Tail(fs))

\* String.prototype.toLowerCase on the extensions in use
ToLower(e) == IF e = "PDF" THEN "pdf" ELSE IF e = "PNG" THEN "png" ELSE e

GetFileExtension(name) == ToLower(name.ext)

IsFileTypeAllowed(mime, name) ==
    \/ \E i \in 1..Len(allowedTypes) : allowedTypes[i] = AnyType
    \/ /\ mime # NoMime
       /\ \E i \in 1..Len(allowedTypes) :
             LET allowed == allowedTypes[i]
             IN /\ allowed.kind = "mime"
                /\ \/ (allowed.base = mime.base /\ allowed.sub = mime.sub)
                   \/ (allowed.sub = "*" /\ allowed.base = mime.base)
    \/ \E i \in 1..Len(allowedTypes) :
          /\ allowedTypes[i].kind = "ext"
          /\ allowedTypes[i].ext = GetFileExtension(name)

\* the first file of fs larger than the per-file limit, as an index (0: none)
FirstOversized(fs) ==
    LET big == {i \in 1..Len(fs) : fs[i].size > MaxSizePerFile}
    IN IF big = {} THEN 0 ELSE CHOOSE i \in big : \A j \in big : i <= j

\* validateFiles without the check of the total size
ValidateFilesNoTotal(selectedFiles) ==
    IF required /\ Len(selectedFiles) = 0 THEN ErrRequired
    ELSE IF Len(selectedFiles) > MaxFiles THEN ErrMaxFiles
    ELSE IF FirstOversized(selectedFiles) # 0
         THEN ErrPerFile(selectedFiles[FirstOversized(selectedFiles)])
    ELSE ErrNone

ValidateFiles(selectedFiles) ==
    IF required /\ Len(selectedFiles) = 0 THEN ErrRequired
    ELSE IF Len(selectedFiles) > MaxFiles THEN ErrMaxFiles
    ELSE IF FirstOversized(selectedFiles) # 0
         THEN ErrPerFile(selectedFiles[FirstOversized(selectedFiles)])
    ELSE IF SumSizes(selectedFiles) > MaxTotalSize THEN ErrTotal(SumSizes(selectedFiles))
    ELSE ErrNone

\* one pass of the loop body: the asset gets past both continue statements
Survives(asset) ==
    /\ IsFileTypeAllowed(asset.mime, asset.name)
    /\ ~(asset.size # 0 /\ asset.size > MaxSizePerFile)

RECURSIVE NewFilesUntilFirstDrop(_)
\* a loop that ends at the first asset it drops
NewFilesUntilFirstDrop(assets) ==
    IF assets = <<>> THEN <<>>
    ELSE IF ~Survives(Head(assets)) THEN <<>>
    ELSE <<Head(assets)>> \o NewFilesUntilFirstDrop(Tail(assets))

\* the loop over result.assets: the assets that pass the type and the size test
RECURSIVE NewFiles(_)
NewFiles(assets) ==
    IF assets = <<>> THEN <<>>
    ELSE LET asset == Head(assets)
             rest == NewFiles(Tail(assets))
         IN IF ~IsFileTypeAllowed(asset.mime, asset.name) THEN rest
            ELSE IF asset.size # 0 /\ asset.size > MaxSizePerFile THEN rest
            ELSE <<asset>> \o rest

\* [...files, ...newFiles].slice(0, maxFiles)
UpdatedFiles(closed, newFiles) ==
    LET all == closed \o newFiles
    IN IF Len(all) > MaxFiles THEN SubSeq(all, 1, MaxFiles) ELSE all

\* a commit that does not look at the validation error
CommittedAlways(validationError, updatedFiles, current) == updatedFiles

\* if (!validationError) { setFiles(updatedFiles); onChange?.(updatedFiles) }
Committed(validationError, updatedFiles, current) ==
    IF validationError = ErrNone THEN updatedFiles ELSE current

\* files.filter((_, i) => i !== index), index counted from 1
WithoutIndex(fs, index) ==
    [i \in 1..(Len(fs) - 1) |-> IF i < index THEN fs[i] ELSE fs[i + 1]]

FSnapshot == [files |-> files, reported |-> reported, error |-> error]
NoCall == [open |-> FALSE, closed |-> <<>>, multiple |-> FALSE]
NoPick == [nAssets |-> 0, nNew |-> 0, tentativeCount |-> 0, tentativeTotal |-> 0,
           updatedTotal |-> 0, closed |-> <<>>, assets |-> <<>>]

InitFiles ==
    /\ files = <<>>
    /\ error = ErrNone
    /\ isTouched = FALSE
    /\ reported = <<>>
    /\ required \in BOOLEAN
    /\ allowedTypes \in AllowedConfigs
    /\ pending = NoCall
    /\ lastPick = NoPick
    /\ fBefore = [files |-> <<>>, reported |-> <<>>, error |-> ErrNone]
    /\ fLastOp = "init"

\* handlePickFiles up to the await of the document picker. The picker is modal: with a
\* call already waiting, getDocumentAsync throws and the catch block only shows an alert.
PickStart ==
    /\ OnlyFiles
    /\ fLastOp' = "pickStart"
    /\ fBefore' = FSnapshot
    /\ isTouched' = TRUE
    /\ lastPick' = NoPick
    /\ UNCHANGED <<files, reported, required, allowedTypes>>
    /\ \/ /\ Len(files) >= MaxFiles
          /\ error' = ErrMaxFiles
          /\ UNCHANGED pending
       \/ /\ Len(files) < MaxFiles
          /\ pending' = IF pending.open THEN pending
                        ELSE [open |-> TRUE, closed |-> files,
                              multiple |-> Len(files) + 1 < MaxFiles]
          /\ UNCHANGED error

\* the picker is dismissed (result.canceled), or getDocumentAsync throws and the
\* catch block only shows an alert
PickCancelOrThrow ==
    /\ OnlyFiles
    /\ pending.open
    /\ fLastOp' = "pickNothing"
    /\ fBefore' = FSnapshot
    /\ pending' = NoCall
    /\ lastPick' = NoPick
    /\ UNCHANGED <<files, error, isTouched, reported, required, allowedTypes>>

\* the results the picker can give to a call: one asset unless multiple was asked
PickerResults(call) ==
    IF call.multiple
    THEN UNION {[1..n -> Assets] : n \in 0..MaxPick}
    ELSE [1..1 -> Assets]

\* handlePickFiles from the picker's answer on
PickResolve ==
    /\ OnlyFiles
    /\ pending.open
    /\ \E assets \in PickerResults(pending) :
        LET closed == pending.closed
            newFiles == NewFiles(assets)
            updatedFiles == UpdatedFiles(closed, newFiles)
            validationError == ValidateFiles(updatedFiles)
        IN /\ fLastOp' = "pickResolve"
           /\ fBefore' = FSnapshot
           /\ pending' = NoCall
           /\ lastPick' = [nAssets |-> Len(assets), nNew |-> Len(newFiles),
                           tentativeCount |-> Len(closed) + Len(newFiles),
                           tentativeTotal |-> SumSizes(closed \o newFiles),
                           updatedTotal |-> SumSizes(updatedFiles),
                           closed |-> closed, assets |-> assets]
           /\ UNCHANGED <<isTouched, required, allowedTypes>>
           /\ IF newFiles = <<>>
              THEN UNCHANGED <<files, error, reported>>
              ELSE /\ error' = validationError
                   /\ files' = Committed(validationError, updatedFiles, files)
                   /\ reported' = Committed(validationError, updatedFiles, reported)

HandleRemoveFile ==
    /\ OnlyFiles
    /\ \E index \in 1..Len(files) :
        LET updatedFiles == WithoutIndex(files, index)
        IN /\ fLastOp' = "remove"
           /\ fBefore' = FSnapshot
           /\ files' = updatedFiles
           /\ reported' = updatedFiles
           /\ error' = ValidateFiles(updatedFiles)
           /\ lastPick' = NoPick
           /\ UNCHANGED <<isTouched, required, allowedTypes, pending>>

\* a clear that validates the empty list as handleRemoveFile does
HandleClearAllRevalidates ==
    /\ OnlyFiles
    /\ fLastOp' = "clear"
    /\ fBefore' = FSnapshot
    /\ files' = <<>>
    /\ reported' = <<>>
    /\ error' = ValidateFiles(<<>>)
    /\ lastPick' = NoPick
    /\ UNCHANGED <<isTouched, required, allowedTypes, pending>>

HandleClearAll ==
    /\ OnlyFiles
    /\ fLastOp' = "clear"
    /\ fBefore' = FSnapshot
    /\ files' = <<>>
    /\ reported' = <<>>
    /\ error' = ErrNone
    /\ lastPick' = NoPick
    /\ UNCHANGED <<isTouched, required, allowedTypes, pending>>

NextFiles ==
    \/ PickStart
    \/ PickCancelOrThrow
    \/ PickResolve
    \/ HandleRemoveFile
    \/ HandleClearAll

(***************************************************************************)
(* CustomTextInput and its validate function                               *)
(***************************************************************************)

\* Bounds of the model
MaxLen == 2                  \* characters a text holds at most

Chars == {"a", " "}
Whitespace == {" "}
Strings == UNION {[1..n -> Chars] : n \in 0..MaxLen}

\* String.prototype.trim
RECURSIVE TrimStart(_)
TrimStart(t) == IF t # <<>> /\ Head(t) \in Whitespace THEN TrimStart(Tail(t)) ELSE t
RECURSIVE TrimEnd(_)
TrimEnd(t) ==
    IF t # <<>> /\ t[Len(t)] \in Whitespace THEN TrimEnd(SubSeq(t, 1, Len(t) - 1)) ELSE t
Trim(t) == TrimEnd(TrimStart(t))

Rule(type, value, pattern, message) ==
    [type |-> type, value |-> value, pattern |-> pattern, message |-> message]
RequiredRule == Rule("required", 0, "", "required")
MinLengthRule(n) == Rule("minLength", n, "", "minLength")
MaxLengthRule(n) == Rule("maxLength", n, "", "maxLength")
EmailRule == Rule("email", 0, "", "email")
RegexRule(p) == Rule("regex", 0, p, "regex")
CustomRule(v) == Rule("custom", 0, v, "custom")

\* /^[^\s@]+@[^\s@]+\.[^\s@]+$/.test(text)
EmailRegexTest(text) ==
    \E i \in 1..Len(text) : \E j \in 1..Len(text) :
        /\ text[i] = "@"
        /\ text[j] = "."
        /\ 1 < i /\ i + 1 < j /\ j < Len(text)
        /\ \A k \in 1..Len(text) : k # i => text[k] \notin (Whitespace \cup {"@"})

\* rule.value.test(text) for the patterns in use
RegexTest(pattern, text) ==
    IF pattern = "^a+$" THEN text # <<>> /\ \A k \in 1..Len(text) : text[k] = "a"
    ELSE TRUE

\* rule.validator(text) for the validators in use
CustomTest(validator, text) ==
    IF validator = "noSpace" THEN \A k \in 1..Len(text) : text[k] # " "
    ELSE TRUE

\* one case of the switch in validate: does text fail the rule
Fails(rule, text) ==
    CASE rule.type = "required" -> Trim(text) = <<>>
      [] rule.type = "minLength" -> Len(text) < rule.value
      [] rule.type = "maxLength" -> Len(text) > rule.value
      [] rule.type = "email" -> text # <<>> /\ ~EmailRegexTest(text)
      [] rule.type = "regex" -> rule.pattern # "" /\ text # <<>> /\ ~RegexTest(rule.pattern, text)
      [] rule.type = "custom" -> rule.pattern # "" /\ ~CustomTest(rule.pattern, text)
      [] OTHER -> FALSE

RECURSIVE ValidateRulesFirstFailure(_, _)
\* a validate that stops at the first failing rule
ValidateRulesFirstFailure(text, rules) ==
    IF rules = <<>> THEN <<>>
    ELSE IF Fails(Head(rules), text) THEN <<Head(rules).message>>
    ELSE ValidateRulesFirstFailure(text, Tail(rules))

RECURSIVE ValidateRules(_, _)
\* validators.forEach: the messages of the failing rules, in order
ValidateRules(text, rules) ==
    IF rules = <<>> THEN <<>>
    ELSE (IF Fails(Head(rules), text) THEN <<Head(rules).message>> ELSE <<>>)
         \o ValidateRules(text, Tail(rules))

Validate(text) == ValidateRules(text, validators)

Undefined == [defined |-> FALSE, text |-> <<>>]
Defined(t) == [defined |-> TRUE, text |-> t]

IsControlled == externalValue.defined
Value == IF externalValue.defined THEN externalValue.text ELSE internalValue

HasError == isTouchedText /\ Len(errors) > 0
IsSuccess == isTouchedText /\ Len(errors) = 0 /\ Len(Trim(Value)) > 0

ValidatorConfigs ==
    { <<RequiredRule>>,
      <<RequiredRule, MinLengthRule(2)>>,
      <<MaxLengthRule(1), CustomRule("noSpace")>> }

InitText ==
    /\ internalValue = <<>>
    /\ externalValue \in {Undefined, Defined(<<>>)}
    /\ isFocused = FALSE
    /\ isTouchedText = FALSE
    /\ errors = <<>>
    /\ validators \in ValidatorConfigs
    /\ formValue = <<>>
    /\ formValid = "none"
    /\ everBlurred = FALSE
    /\ tLastOp = "init"

Flag(b) == IF b THEN "true" ELSE "false"

\* the user edits the text; the form's onChangeText (a state setter) stores it, and a
\* controlled input gets it back as its value prop
HandleChangeText ==
    /\ OnlyText
    /\ \E text \in Strings :
        /\ tLastOp' = "change"
        /\ internalValue' = IF ~IsControlled THEN text ELSE internalValue
        /\ formValue' = text
        /\ externalValue' = IF IsControlled THEN Defined(text) ELSE externalValue
        /\ IF isTouchedText
           THEN /\ errors' = Validate(text)
                /\ formValid' = Flag(Len(Validate(text)) = 0)
           ELSE UNCHANGED <<errors, formValid>>
        /\ UNCHANGED <<isFocused, isTouchedText, validators, everBlurred>>

HandleFocus ==
    /\ OnlyText
    /\ tLastOp' = "focus"
    /\ isFocused' = TRUE
    /\ UNCHANGED <<internalValue, externalValue, isTouchedText, errors, validators, formValue,
                   formValid, everBlurred>>

\* a blur that validates but does not mark the input as touched
HandleBlurNoTouch ==
    /\ OnlyText
    /\ tLastOp' = "blur"
    /\ isFocused' = FALSE
    /\ everBlurred' = TRUE
    /\ errors' = Validate(Value)
    /\ formValid' = Flag(Len(Validate(Value)) = 0)
    /\ UNCHANGED <<internalValue, externalValue, isTouchedText, validators, formValue>>

HandleBlur ==
    /\ OnlyText
    /\ tLastOp' = "blur"
    /\ isFocused' = FALSE
    /\ isTouchedText' = TRUE
    /\ everBlurred' = TRUE
    /\ errors' = Validate(Value)
    /\ formValid' = Flag(Len(Validate(Value)) = 0)
    /\ UNCHANGED <<internalValue, externalValue, validators, formValue>>

\* the form renders the input with another value prop (its reset sets '')
ParentSetsValue ==
    /\ OnlyText
    /\ \E v \in {Undefined} \cup {Defined(t) : t \in Strings} :
        /\ v # externalValue
        /\ tLastOp' = "parent"
        /\ externalValue' = v
        /\ UNCHANGED <<internalValue, isFocused, isTouchedText, errors, validators, formValue,
                       formValid, everBlurred>>

NextText ==
    \/ HandleChangeText
    \/ HandleFocus
    \/ HandleBlur
    \/ ParentSetsValue

(***************************************************************************)
(* validate called on its own, on any text and any validators              *)
(***************************************************************************)

\* Bounds of the model
MaxRules == 2                \* rules a validators array holds at most

RuleSet ==
    { RequiredRule, MinLengthRule(2), MaxLengthRule(1), EmailRule, RegexRule("^a+$"),
      CustomRule("noSpace") }
RuleSeqs == UNION {[1..n -> RuleSet] : n \in 0..MaxRules}

\* texts an email rule can pass or fail on
EmailSamples == { <<"a", "@", "a", ".", "a">>, <<"a", "@", "a">>, <<"@", "a", ".", "a">> }
ValidateInputs == Strings \cup EmailSamples

NotCalled == [called |-> FALSE, errors |-> <<>>]

InitValidate ==
    /\ vText \in ValidateInputs
    /\ vRules \in RuleSeqs
    /\ vResult = NotCalled

CallValidate ==
    /\ OnlyValidate
    /\ ~vResult.called
    /\ vResult' = [called |-> TRUE, errors |-> ValidateRules(vText, vRules)]
    /\ UNCHANGED <<vText, vRules>>

NextValidate == CallValidate

(***************************************************************************)
(* CalendarPicker (the date field)                                         *)
(*                                                                         *)
(* Texts are sequences of characters. A Date is the local calendar day it  *)
(* falls on (y, m, d with m counted from 0 as getMonth does) and whether   *)
(* it lies at local midnight (t = 0) or later in that day (t = 1).         *)
(***************************************************************************)

\* Bounds of the model
MaxDayTyped == 32            \* largest day number in a typed text
MaxMonthTyped == 13          \* largest month number in a typed text

Formats == {"DD/MM/YYYY", "MM/DD/YYYY", "YYYY-MM-DD"}

DigitChars == <<"0", "1", "2", "3", "4", "5", "6", "7", "8", "9">>
Digits == {DigitChars[k] : k \in 1..10}
DigitValue(c) == CHOOSE k \in 0..9 : DigitChars[k + 1] = c

RECURSIVE NatToString(_)
NatToString(n) ==
    IF n < 10 THEN <<DigitChars[n + 1]>>
    ELSE NatToString(n \div 10) \o <<DigitChars[(n % 10) + 1]>>
\* String(n) of an integer
NumberToString(n) == IF n < 0 THEN <<"-">> \o NatToString(0 - n) ELSE NatToString(n)
\* s.padStart(2, '0')
PadStart2(s) == IF Len(s) < 2 THEN <<"0">> \o s ELSE s

NaN == [nan |-> TRUE, n |-> 0]
Num(n) == [nan |-> FALSE, n |-> n]

RECURSIVE ParseDigits(_, _, _)
ParseDigits(s, acc, seen) ==
    IF s # <<>> /\ Head(s) \in Digits
    THEN ParseDigits(Tail(s), acc * 10 + DigitValue(Head(s)), TRUE)
    ELSE IF seen THEN Num(acc) ELSE NaN
\* parseInt(s, 10): leading white space, a sign, then digits up to the first other character
ParseInt(s) ==
    LET t == TrimStart(s) IN
    IF t # <<>> /\ Head(t) = "-"
    THEN LET p == ParseDigits(Tail(t), 0, FALSE) IN IF p.nan THEN NaN ELSE Num(0 - p.n)
    ELSE IF t # <<>> /\ Head(t) = "+" THEN ParseDigits(Tail(t), 0, FALSE)
    ELSE ParseDigits(t, 0, FALSE)

RECURSIVE Split(_, _)
\* s.split(sep)
Split(s, sep) ==
    IF \E i \in 1..Len(s) : s[i] = sep
    THEN LET i == CHOOSE i \in 1..Len(s) : s[i] = sep /\ \A j \in 1..(i - 1) : s[j] # sep
         IN <<SubSeq(s, 1, i - 1)>> \o Split(SubSeq(s, i + 1, Len(s)), sep)
    ELSE <<s>>

IsLeapYear(y) == (y % 4 = 0 /\ y % 100 # 0) \/ y % 400 = 0
\* days of month m (from 0) of year y
DaysInMonth(y, m) ==
    CASE m \in {3, 5, 8, 10} -> 30
      [] m = 1 -> IF IsLeapYear(y) THEN 29 ELSE 28
      [] OTHER -> 31

NoDate == [valid |-> FALSE, y |-> 0, m |-> 0, d |-> 0, t |-> 0]
DateAt(y, m, d, t) == [valid |-> TRUE, y |-> y, m |-> m, d |-> d, t |-> t]

RECURSIVE MakeDay(_, _, _)
\* the calendar day that month m and day d of year y roll over to
MakeDay(y, m, d) ==
    IF m < 0 THEN MakeDay(y - 1, m + 12, d)
    ELSE IF m > 11 THEN MakeDay(y + 1, m - 12, d)
    ELSE IF d < 1
         THEN LET py == IF m = 0 THEN y - 1 ELSE y
                  pm == IF m = 0 THEN 11 ELSE m - 1
              IN MakeDay(py, pm, d + DaysInMonth(py, pm))
    ELSE IF d > DaysInMonth(y, m)
         THEN MakeDay(IF m = 11 THEN y + 1 ELSE y, IF m = 11 THEN 0 ELSE m + 1,
                      d - DaysInMonth(y, m))
    ELSE DateAt(y, m, d, 0)

\* new Date(year, month, day): years 0..99 stand for 1900..1999, month and day roll over,
\* NaN gives an invalid Date
NewDate(year, month, day) ==
    IF year.nan \/ month.nan \/ day.nan THEN NoDate
    ELSE MakeDay(IF 0 <= year.n /\ year.n <= 99 THEN 1900 + year.n ELSE year.n, month.n, day.n)

\* a < b on Dates
Before(a, b) ==
    \/ a.y < b.y
    \/ a.y = b.y /\ a.m < b.m
    \/ a.y = b.y /\ a.m = b.m /\ a.d < b.d
    \/ a.y = b.y /\ a.m = b.m /\ a.d = b.d /\ a.t < b.t

FormatDateAs(date, fmt) ==
    LET day == PadStart2(NumberToString(date.d))
        month == PadStart2(NumberToString(date.m + 1))
        year == NumberToString(date.y)
    IN CASE fmt = "DD/MM/YYYY" -> day \o <<"/">> \o month \o <<"/">> \o year
         [] fmt = "MM/DD/YYYY" -> month \o <<"/">> \o day \o <<"/">> \o year
         [] fmt = "YYYY-MM-DD" -> year \o <<"-">> \o month \o <<"-">> \o day
         [] OTHER -> day \o <<"/">> \o month \o <<"/">> \o year

FormatDate(date) == FormatDateAs(date, dateFormat)

\* the numbers parseDate reads from the parts of the text: day, month (from 0), year
Components(parts, fmt) ==
    LET pos == CASE fmt = "DD/MM/YYYY" -> [day |-> 1, month |-> 2, year |-> 3]
                 [] fmt = "MM/DD/YYYY" -> [day |-> 2, month |-> 1, year |-> 3]
                 [] OTHER -> [day |-> 3, month |-> 2, year |-> 1]
        mo == ParseInt(parts[pos.month])
    IN [day |-> ParseInt(parts[pos.day]),
        month |-> IF mo.nan THEN NaN ELSE Num(mo.n - 1),
        year |-> ParseInt(parts[pos.year])]

Separator(fmt) == IF fmt = "YYYY-MM-DD" THEN "-" ELSE "/"

\* a parseDate that returns the Date as constructed, rolled over or not
ParseDateAsNoCheck(dateString, fmt) ==
    IF Trim(dateString) = <<>> THEN NoDate
    ELSE IF fmt \notin Formats THEN NoDate
    ELSE LET parts == Split(dateString, Separator(fmt)) IN
         IF Len(parts) # 3 THEN NoDate
         ELSE LET c == Components(parts, fmt) IN NewDate(c.year, c.month, c.day)

ParseDateAs(dateString, fmt) ==
    IF Trim(dateString) = <<>> THEN NoDate
    ELSE IF fmt \notin Formats THEN NoDate
    ELSE LET parts == Split(dateString, Separator(fmt)) IN
         IF Len(parts) # 3 THEN NoDate
         ELSE LET c == Components(parts, fmt)
                  date == NewDate(c.year, c.month, c.day)
              IN IF \/ ~date.valid
                    \/ date.d # c.day.n
                    \/ date.m # c.month.n
                    \/ date.y # c.year.n
                 THEN NoDate
                 ELSE date

ParseDate(dateString) == ParseDateAs(dateString, dateFormat)

\* toCalendarFormat: the day a Date falls on, as the calendar takes it
ToCalendarFormat(date) == [y |-> date.y, m |-> date.m, d |-> date.d]

NoError == [msg |-> "", arg |-> <<>>]
ErrDateRequired == [msg |-> "Date is required", arg |-> <<>>]
ErrDateFormat == [msg |-> "Invalid date format. Use F", arg |-> <<dateFormat>>]
ErrDateMin == [msg |-> "Date must be after D", arg |-> FormatDate(minDate)]
ErrDateMax == [msg |-> "Date must be before D", arg |-> FormatDate(maxDate)]

\* a validateDate that checks the bounds before it checks that the text parses
ValidateDateBoundsFirst(dateString) ==
    IF dateRequired /\ Trim(dateString) = <<>> THEN ErrDateRequired
    ELSE IF Trim(dateString) = <<>> THEN NoError
    ELSE LET date == ParseDate(dateString) IN
         IF minDate.valid /\ Before(date, minDate) THEN ErrDateMin
         ELSE IF maxDate.valid /\ Before(maxDate, date) THEN ErrDateMax
         ELSE IF ~date.valid THEN ErrDateFormat
         ELSE NoError

ValidateDate(dateString) ==
    IF dateRequired /\ Trim(dateString) = <<>> THEN ErrDateRequired
    ELSE IF Trim(dateString) = <<>> THEN NoError
    ELSE LET date == ParseDate(dateString) IN
         IF ~date.valid THEN ErrDateFormat
         ELSE IF minDate.valid /\ Before(date, minDate) THEN ErrDateMin
         ELSE IF maxDate.valid /\ Before(maxDate, date) THEN ErrDateMax
         ELSE NoError

HasDateError == isTouchedDate /\ dateError.msg # ""

\* the days the calendar shows
FirstDayShown == DateAt(2025, 0, 30, 0)
DaysShown == 5
CalendarDays == {MakeDay(FirstDayShown.y, FirstDayShown.m, FirstDayShown.d + k) : k \in 0..(DaysShown - 1)}

\* day a is not after day b
DayLeq(a, b) ==
    \/ a.y < b.y
    \/ a.y = b.y /\ a.m < b.m
    \/ a.y = b.y /\ a.m = b.m /\ a.d <= b.d

\* the days the calendar lets the user press, given its minDate and maxDate props
Offered(day) ==
    /\ minDate.valid => DayLeq(ToCalendarFormat(minDate), day)
    /\ maxDate.valid => DayLeq(day, ToCalendarFormat(maxDate))

\* new Date(day.dateString): a date-only ISO string is midnight UTC, which west of
\* Greenwich is the evening of the local day before
NewDateFromISO(day) ==
    IF tzWest THEN [MakeDay(day.y, day.m, day.d - 1) EXCEPT !.t = 1]
    ELSE DateAt(day.y, day.m, day.d, 0)

\* the bounds given to the field: none, or a first and a last day; new Date() as the form
\* passes it lies within its day
BoundsConfigs ==
    { [min |-> NoDate, max |-> NoDate],
      [min |-> DateAt(2025, 0, 31, 0), max |-> DateAt(2025, 1, 2, 0)],
      [min |-> DateAt(2025, 0, 31, 1), max |-> DateAt(2025, 1, 2, 1)] }

\* texts typed into the field: the days shown, a day that does not exist, blanks
TextsTyped ==
    {FormatDate(d) : d \in CalendarDays}
        \cup {FormatDate(DateAt(2025, 1, 30, 0)), <<>>, <<" ">>}

NoDay == [y |-> 0, m |-> 0, d |-> 0]

NoInput == [kind |-> "none", date |-> NoDate, text |-> <<>>]
NoOutput == [fn |-> "none", text |-> <<>>, date |-> NoDate, error |-> NoError]

\* the state of a field just mounted with value ''
DateAsMounted ==
    /\ textValue = <<>>
    /\ dateError = NoError
    /\ isTouchedDate = FALSE
    /\ isModalVisible = FALSE
    /\ startDate = <<>>
    /\ dateAlive = TRUE
    /\ dLastDay = NoDay
    /\ dLastOp = "init"
    /\ dRaised = FALSE
    /\ dCleared = FALSE

InitDate ==
    /\ dateFormat \in Formats
    /\ dateRequired \in BOOLEAN
    /\ \E b \in BoundsConfigs : minDate = b.min /\ maxDate = b.max
    /\ tzWest \in BOOLEAN
    /\ constHoisted \in BOOLEAN
    /\ DateAsMounted
    /\ dfInput = NoInput
    /\ dfOut = NoOutput

\* the user edits the text. validationError is declared inside the if block and read after
\* it: where const keeps its block scope the read throws a ReferenceError after the state
\* updates (the exception ends the application in a release build and is reported in a
\* development build); where the build turns const into a function-scoped var the read
\* gives undefined for an untouched field.
HandleTextChange ==
    /\ OnlyDate
    /\ dateAlive
    /\ \E text \in TextsTyped :
        /\ dLastOp' = "change"
        /\ textValue' = text
        /\ dateError' = IF isTouchedDate THEN ValidateDate(text) ELSE dateError
        /\ IF constHoisted
           THEN /\ startDate' = IF isTouchedDate /\ ValidateDate(text).msg # ""
                                THEN startDate ELSE text
                /\ dateAlive' = TRUE
           ELSE /\ startDate' = startDate
                /\ dateAlive' \in BOOLEAN
        /\ dRaised' = ~constHoisted
        /\ UNCHANGED <<dateFormat, dateRequired, minDate, maxDate, tzWest, constHoisted,
                       isTouchedDate, isModalVisible, dLastDay, dCleared, dfInput, dfOut>>

HandleDateBlur ==
    /\ OnlyDate
    /\ dateAlive
    /\ dLastOp' = "blur"
    /\ dRaised' = FALSE
    /\ dCleared' = FALSE
    /\ isTouchedDate' = TRUE
    /\ dateError' = ValidateDate(textValue)
    /\ UNCHANGED <<dateFormat, dateRequired, minDate, maxDate, tzWest, constHoisted,
                   textValue, isModalVisible, startDate, dateAlive, dLastDay, dfInput, dfOut>>

OpenCalendar ==
    /\ OnlyDate
    /\ dateAlive
    /\ ~isModalVisible
    /\ dLastOp' = "open"
    /\ dRaised' = FALSE
    /\ isModalVisible' = TRUE
    /\ UNCHANGED <<dateFormat, dateRequired, minDate, maxDate, tzWest, constHoisted,
                   textValue, dateError, isTouchedDate, startDate, dateAlive, dLastDay,
                   dCleared, dfInput, dfOut>>

CloseCalendar ==
    /\ OnlyDate
    /\ dateAlive
    /\ isModalVisible
    /\ dLastOp' = "close"
    /\ dRaised' = FALSE
    /\ isModalVisible' = FALSE
    /\ UNCHANGED <<dateFormat, dateRequired, minDate, maxDate, tzWest, constHoisted,
                   textValue, dateError, isTouchedDate, startDate, dateAlive, dLastDay,
                   dCleared, dfInput, dfOut>>

HandleDateSelect ==
    /\ OnlyDate
    /\ dateAlive
    /\ isModalVisible
    /\ \E day \in {ToCalendarFormat(d) : d \in CalendarDays} :
        /\ Offered(day)
        /\ dLastOp' = "select"
        /\ dRaised' = FALSE
        /\ dCleared' = FALSE
        /\ dLastDay' = day
        /\ textValue' = FormatDate(NewDateFromISO(day))
        /\ dateError' = NoError
        /\ isTouchedDate' = TRUE
        /\ startDate' = FormatDate(NewDateFromISO(day))
        /\ isModalVisible' = FALSE
    /\ UNCHANGED <<dateFormat, dateRequired, minDate, maxDate, tzWest, constHoisted,
                   dateAlive, dfInput, dfOut>>

HandleClear ==
    /\ OnlyDate
    /\ dateAlive
    /\ textValue # <<>>
    /\ dLastOp' = "clear"
    /\ dRaised' = FALSE
    /\ dCleared' = TRUE
    /\ textValue' = <<>>
    /\ dateError' = NoError
    /\ startDate' = <<>>
    /\ UNCHANGED <<dateFormat, dateRequired, minDate, maxDate, tzWest, constHoisted,
                   isTouchedDate, isModalVisible, dateAlive, dLastDay, dfInput, dfOut>>

NextDate ==
    \/ HandleTextChange
    \/ HandleDateBlur
    \/ OpenCalendar
    \/ CloseCalendar
    \/ HandleDateSelect
    \/ HandleClear

(***************************************************************************)
(* formatDate, parseDate and validateDate called on their own              *)
(***************************************************************************)

YearsTyped == {50, 1900, 2000, 2024, 2025}

\* every day of the years in use
ValidDates ==
    {DateAt(y, m, d, 0) : <<y, m, d>> \in
        {c \in YearsTyped \X (0..11) \X (1..31) : c[3] <= DaysInMonth(c[1], c[2])}}

\* day, month and year numbers typed in the layout fmt, existing as a date or not
NumericTexts(fmt) ==
    {FormatDateAs(DateAt(y, m - 1, d, 0), fmt) :
        <<y, m, d>> \in YearsTyped \X (0..MaxMonthTyped) \X (0..MaxDayTyped)}

\* numbers typed in any of the three layouts
CrossTexts ==
    {FormatDateAs(DateAt(2024, c[1] - 1, c[2], 0), c[3]) :
        c \in {1, 2, 12} \X {1, 13, 30, 31} \X Formats}

OddTexts ==
    { <<>>, <<" ">>, <<"a">>, <<"1", "/", "2">>, <<"1", "/", "2", "/", "3", "/", "4">>,
      <<"a", "/", "0", "1", "/", "2", "0", "2", "5">>,
      <<"1", "a", "/", "0", "1", "/", "2", "0", "2", "5">>,
      <<" ", "1", "/", "1", "/", "2", "0", "2", "5">>,
      <<"1", "/", "2", "/", "2", "0", "2", "5">>,
      <<"0", "1", "/", "0", "1", "/", "0", "0", "5", "0">> }

FnBounds ==
    { [min |-> NoDate, max |-> NoDate],
      [min |-> DateAt(2025, 0, 1, 0), max |-> DateAt(2025, 11, 31, 0)] }

FnTexts(fmt) == NumericTexts(fmt) \cup CrossTexts \cup OddTexts

\* a Date to format and parse back, or a text to parse and to validate
InitDateFn ==
    /\ dateFormat \in Formats
    /\ tzWest = FALSE
    /\ constHoisted = FALSE
    /\ DateAsMounted
    /\ dfOut = NoOutput
    /\ \/ /\ dfInput \in {[kind |-> "date", date |-> d, text |-> <<>>] : d \in ValidDates}
          /\ dateRequired = FALSE
          /\ minDate = NoDate
          /\ maxDate = NoDate
       \/ /\ dfInput \in {[kind |-> "text", date |-> NoDate, text |-> t] : t \in FnTexts(dateFormat)}
          /\ dateRequired \in BOOLEAN
          /\ \E b \in FnBounds : minDate = b.min /\ maxDate = b.max

FnFrame ==
    UNCHANGED <<dateFormat, dateRequired, minDate, maxDate, tzWest, constHoisted, textValue,
                dateError, isTouchedDate, isModalVisible, startDate, dateAlive, dLastDay,
                dLastOp, dRaised, dCleared, dfInput>>

\* parseDate(formatDate(date))
CallFormatThenParse ==
    /\ OnlyDate
    /\ FnFrame
    /\ dfInput.kind = "date"
    /\ dfOut.fn = "none"
    /\ dfOut' = [fn |-> "roundtrip", text |-> FormatDate(dfInput.date),
                 date |-> ParseDate(FormatDate(dfInput.date)), error |-> NoError]

CallParseDate ==
    /\ OnlyDate
    /\ FnFrame
    /\ dfInput.kind = "text"
    /\ dfOut.fn = "none"
    /\ dfOut' = [fn |-> "parse", text |-> dfInput.text, date |-> ParseDate(dfInput.text),
                 error |-> NoError]

CallValidateDate ==
    /\ OnlyDate
    /\ FnFrame
    /\ dfInput.kind = "text"
    /\ dfOut.fn = "none"
    /\ dfOut' = [fn |-> "validate", text |-> dfInput.text, date |-> NoDate,
                 error |-> ValidateDate(dfInput.text)]

NextDateFn ==
    \/ CallFormatThenParse
    \/ CallParseDate
    \/ CallValidateDate

(***************************************************************************)
(* validTarget and validDuration of CounterTimer, computed on their own.   *)
(* Durations are counted in hundredths of a second.                        *)
(***************************************************************************)

MinDuration == 10            \* 0.1 s
MaxDuration == 360000        \* 3600 s
DefaultDuration == 100       \* 1 s

Max(a, b) == IF a >= b THEN a ELSE b
Min(a, b) == IF a <= b THEN a ELSE b

\* x || d for a number x: d when x is 0 or NaN
OrElse(x, d) == IF x.nan \/ x.n = 0 THEN d ELSE x.n

\* Math.max(0.1, Math.min(3600, durationSec || 1))
ValidDuration(d) == Max(MinDuration, Min(MaxDuration, OrElse(d, DefaultDuration)))

\* Math.max(0, targetNumber || 0)
ValidTarget(t) == Max(0, OrElse(t, 0))

DurationInputs ==
    {NaN} \cup {Num(n) : n \in {0 - 500, 0 - 1, 0, 1, 5, MinDuration, DefaultDuration,
                                MaxDuration - 1, MaxDuration, MaxDuration + 1, 2 * MaxDuration}}
TargetInputs == {NaN} \cup {Num(n) : n \in {0 - 100, 0 - 1, 0, 1, 100, 1000}}

NotComputed == [durationDone |-> FALSE, duration |-> 0, targetDone |-> FALSE, target |-> 0]

InitConfig ==
    /\ durationSec \in DurationInputs
    /\ targetNumber \in TargetInputs
    /\ cfgOut = NotComputed

ComputeValidDuration ==
    /\ OnlyConfig
    /\ ~cfgOut.durationDone
    /\ cfgOut' = [cfgOut EXCEPT !.durationDone = TRUE, !.duration = ValidDuration(durationSec)]
    /\ UNCHANGED <<durationSec, targetNumber>>

ComputeValidTarget ==
    /\ OnlyConfig
    /\ ~cfgOut.targetDone
    /\ cfgOut' = [cfgOut EXCEPT !.targetDone = TRUE, !.target = ValidTarget(targetNumber)]
    /\ UNCHANGED <<durationSec, targetNumber>>

NextConfig ==
    \/ ComputeValidDuration
    \/ ComputeValidTarget

(***************************************************************************)
(* OnboardingScreen: the form with its four fields and its submission.     *)
(*                                                                         *)
(* The callbacks the screen gives to its fields are its state setters, so  *)
(* formValue is its state name and formValid its state isNameValid (the    *)
(* name input), startDate its state startDate and reported its state       *)
(* documents. The name and the email input are controlled, the date field  *)
(* and the file picker copy their value prop into their own state when     *)
(* they mount. The history variables of the fields are not kept here.      *)
(***************************************************************************)

\* the validators the screen gives to its two text inputs
NameValidators == <<RequiredRule, MinLengthRule(2), MaxLengthRule(100)>>
EmailValidators == <<RequiredRule, EmailRule>>

\* what the user types and picks on the screen
NameTexts == { <<>>, <<"a">>, <<"a", "a">> }
EmailTexts == { <<>>, <<"a", "@", "a">>, <<"a", "@", "a", ".", "a">> }
DaysPressed == {ToCalendarFormat(DateAt(2025, 1, 1, 0))}
DateTexts == { FormatDate(DateAt(2025, 1, 1, 0)), FormatDate(DateAt(2025, 0, 30, 0)) }
AssetsPicked == {a \in Assets : a.name.stem = "a"}

NoData == "null"
ResponseData == "data"

nameInput == <<externalValue, isTouchedText, errors, formValue, formValid>>
emailInput == <<email, isTouchedEmail, emailErrors, isEmailValid>>
startDateField == <<textValue, dateError, isTouchedDate, isModalVisible, startDate, dateAlive>>
documentsPicker == <<files, error, isTouched, reported, pending>>
submission == <<isSubmitting, showSuccess, submittedData>>
\* props, and what is not kept of the fields on the screen
screenFixed ==
    <<counterVars, validateVars, configVars, internalValue, isFocused, validators,
      everBlurred, tLastOp, dateFormat, dateRequired, minDate, maxDate, tzWest,
      constHoisted, dLastDay, dLastOp, dRaised, dCleared, dfInput, dfOut,
      required, allowedTypes, lastPick, fBefore, fLastOp>>

ScreenAsMounted ==
    /\ email = <<>>
    /\ isTouchedEmail = FALSE
    /\ emailErrors = <<>>
    /\ isEmailValid = FALSE
    /\ isSubmitting = FALSE
    /\ showSuccess = FALSE
    /\ submittedData = NoData

\* the screen as rendered first: the props it gives to its fields (new Date() lies
\* within its day), every field as mounted
InitScreen ==
    /\ ScreenAsMounted
    /\ internalValue = <<>>
    /\ externalValue = Defined(<<>>)
    /\ isFocused = FALSE
    /\ isTouchedText = FALSE
    /\ errors = <<>>
    /\ validators = NameValidators
    /\ formValue = <<>>
    /\ formValid = Flag(FALSE)
    /\ everBlurred = FALSE
    /\ tLastOp = "init"
    /\ InitDate
    /\ dateFormat = "DD/MM/YYYY"
    /\ dateRequired = TRUE
    /\ minDate = DateAt(2025, 0, 31, 1)
    /\ tzWest = FALSE
    /\ InitFiles
    /\ required = TRUE
    /\ allowedTypes = <<AnyType>>

\* handleChangeText of the name input
NameChangeText ==
    /\ dateAlive
    /\ \E text \in NameTexts :
        /\ formValue' = text
        /\ externalValue' = Defined(text)
        /\ IF isTouchedText
           THEN /\ errors' = Validate(text)
                /\ formValid' = Flag(Len(Validate(text)) = 0)
           ELSE UNCHANGED <<errors, formValid>>
    /\ UNCHANGED <<isTouchedText, emailInput, startDateField, documentsPicker, submission,
                   screenFixed>>

\* handleBlur of the name input
NameBlur ==
    /\ dateAlive
    /\ isTouchedText' = TRUE
    /\ errors' = Validate(Value)
    /\ formValid' = Flag(Len(Validate(Value)) = 0)
    /\ UNCHANGED <<externalValue, formValue, emailInput, startDateField, documentsPicker,
                   submission, screenFixed>>

\* handleChangeText of the email input
EmailChangeText ==
    /\ dateAlive
    /\ \E text \in EmailTexts :
        /\ email' = text
        /\ IF isTouchedEmail
           THEN /\ emailErrors' = ValidateRules(text, EmailValidators)
                /\ isEmailValid' = (Len(ValidateRules(text, EmailValidators)) = 0)
           ELSE UNCHANGED <<emailErrors, isEmailValid>>
    /\ UNCHANGED <<isTouchedEmail, nameInput, startDateField, documentsPicker, submission,
                   screenFixed>>

\* handleBlur of the email input
EmailBlur ==
    /\ dateAlive
    /\ isTouchedEmail' = TRUE
    /\ emailErrors' = ValidateRules(email, EmailValidators)
    /\ isEmailValid' = (Len(ValidateRules(email, EmailValidators)) = 0)
    /\ UNCHANGED <<email, nameInput, startDateField, documentsPicker, submission,
                   screenFixed>>

\* handleTextChange of the date field (see HandleTextChange)
StartDateChangeText ==
    /\ dateAlive
    /\ \E text \in DateTexts :
        /\ textValue' = text
        /\ dateError' = IF isTouchedDate THEN ValidateDate(text) ELSE dateError
        /\ IF constHoisted
           THEN /\ startDate' = IF isTouchedDate /\ ValidateDate(text).msg # ""
                                THEN startDate ELSE text
                /\ dateAlive' = TRUE
           ELSE /\ startDate' = startDate
                /\ dateAlive' \in BOOLEAN
    /\ UNCHANGED <<isTouchedDate, isModalVisible, nameInput, emailInput, documentsPicker,
                   submission, screenFixed>>

\* handleBlur of the date field
StartDateBlur ==
    /\ dateAlive
    /\ isTouchedDate' = TRUE
    /\ dateError' = ValidateDate(textValue)
    /\ UNCHANGED <<textValue, isModalVisible, startDate, dateAlive, nameInput, emailInput,
                   documentsPicker, submission, screenFixed>>

\* the calendar button of the date field
StartDateOpen ==
    /\ dateAlive
    /\ ~isModalVisible
    /\ isModalVisible' = TRUE
    /\ UNCHANGED <<textValue, dateError, isTouchedDate, startDate, dateAlive, nameInput,
                   emailInput, documentsPicker, submission, screenFixed>>

\* handleDateSelect of the date field
StartDateSelect ==
    /\ dateAlive
    /\ isModalVisible
    /\ \E day \in DaysPressed :
        /\ Offered(day)
        /\ textValue' = FormatDate(NewDateFromISO(day))
        /\ dateError' = NoError
        /\ isTouchedDate' = TRUE
        /\ startDate' = FormatDate(NewDateFromISO(day))
        /\ isModalVisible' = FALSE
    /\ UNCHANGED <<dateAlive, nameInput, emailInput, documentsPicker, submission, screenFixed>>

\* handleClear of the date field
StartDateClear ==
    /\ dateAlive
    /\ textValue # <<>>
    /\ textValue' = <<>>
    /\ dateError' = NoError
    /\ startDate' = <<>>
    /\ UNCHANGED <<isTouchedDate, isModalVisible, dateAlive, nameInput, emailInput,
                   documentsPicker, submission, screenFixed>>

\* handlePickFiles of the file picker up to the await
DocumentsPick ==
    /\ dateAlive
    /\ isTouched' = TRUE
    /\ IF Len(files) >= MaxFiles
       THEN /\ error' = ErrMaxFiles
            /\ UNCHANGED pending
       ELSE /\ pending' = IF pending.open THEN pending
                          ELSE [open |-> TRUE, closed |-> files,
                                multiple |-> Len(files) + 1 < MaxFiles]
            /\ UNCHANGED error
    /\ UNCHANGED <<files, reported, nameInput, emailInput, startDateField, submission,
                   screenFixed>>

\* the picker is dismissed, or getDocumentAsync throws
DocumentsPickCancel ==
    /\ dateAlive
    /\ pending.open
    /\ pending' = NoCall
    /\ UNCHANGED <<files, error, isTouched, reported, nameInput, emailInput, startDateField,
                   submission, screenFixed>>

\* handlePickFiles from the picker's answer on; the user picks one file
DocumentsPickResolve ==
    /\ dateAlive
    /\ pending.open
    /\ \E asset \in AssetsPicked :
        LET newFiles == NewFiles(<<asset>>)
            updatedFiles == UpdatedFiles(pending.closed, newFiles)
            validationError == ValidateFiles(updatedFiles)
        IN /\ pending' = NoCall
           /\ IF newFiles = <<>>
              THEN UNCHANGED <<files, error, reported>>
              ELSE /\ error' = validationError
                   /\ files' = Committed(validationError, updatedFiles, files)
                   /\ reported' = Committed(validationError, updatedFiles, reported)
    /\ UNCHANGED <<isTouched, nameInput, emailInput, startDateField, submission, screenFixed>>

\* handleRemoveFile of the file picker
DocumentsRemove ==
    /\ dateAlive
    /\ \E index \in 1..Len(files) :
        /\ files' = WithoutIndex(files, index)
        /\ reported' = WithoutIndex(files, index)
        /\ error' = ValidateFiles(WithoutIndex(files, index))
    /\ UNCHANGED <<isTouched, pending, nameInput, emailInput, startDateField, submission,
                   screenFixed>>

\* handleClearAll of the file picker; the button is shown while there are files
DocumentsClearAll ==
    /\ dateAlive
    /\ Len(files) > 0
    /\ files' = <<>>
    /\ reported' = <<>>
    /\ error' = ErrNone
    /\ UNCHANGED <<isTouched, pending, nameInput, emailInput, startDateField, submission,
                   screenFixed>>

\* isFormValid: what enables the submit button
IsFormValid ==
    /\ Len(Trim(formValue)) > 0
    /\ Len(Trim(email)) > 0
    /\ isEmailValid
    /\ Len(Trim(startDate)) > 0
    /\ Len(reported) > 0

\* OnboardingService.validateOnboardingData(...).valid
ValidateOnboardingData(data) ==
    /\ Len(Trim(data.name)) # 0
    /\ Len(Trim(data.email)) # 0
    /\ EmailRegexTest(data.email)
    /\ Len(Trim(data.startDate)) # 0
    /\ Len(data.documents) # 0

\* the submit button is pressed: handleSubmit up to the await of the request
HandleSubmit ==
    /\ dateAlive
    /\ IsFormValid
    /\ ~isSubmitting
    /\ isSubmitting' = ValidateOnboardingData([name |-> formValue, email |-> email,
                                               startDate |-> startDate,
                                               documents |-> reported])
    /\ UNCHANGED <<showSuccess, submittedData, nameInput, emailInput, startDateField,
                   documentsPicker, screenFixed>>

\* handleSubmit from the response on: success, or an error response or an exception
SubmitResponse ==
    /\ dateAlive
    /\ isSubmitting
    /\ isSubmitting' = FALSE
    /\ \/ /\ submittedData' = ResponseData
          /\ showSuccess' = TRUE
       \/ UNCHANGED <<showSuccess, submittedData>>
    /\ UNCHANGED <<nameInput, emailInput, startDateField, documentsPicker, screenFixed>>

\* handleReset of the screen ("Start New Submission", shown with the success card)
ScreenHandleReset ==
    /\ dateAlive
    /\ showSuccess
    /\ formValue' = <<>>
    /\ externalValue' = Defined(<<>>)
    /\ email' = <<>>
    /\ startDate' = <<>>
    /\ reported' = <<>>
    /\ formValid' = Flag(FALSE)
    /\ isEmailValid' = FALSE
    /\ showSuccess' = FALSE
    /\ submittedData' = NoData
    /\ UNCHANGED <<isTouchedText, errors, isTouchedEmail, emailErrors, textValue, dateError,
                   isTouchedDate, isModalVisible, dateAlive, files, error, isTouched,
                   pending, isSubmitting, screenFixed>>

NextScreen ==
    \/ NameChangeText
    \/ NameBlur
    \/ EmailChangeText
    \/ EmailBlur
    \/ StartDateChangeText
    \/ StartDateBlur
    \/ StartDateOpen
    \/ StartDateSelect
    \/ StartDateClear
    \/ DocumentsPick
    \/ DocumentsPickCancel
    \/ DocumentsPickResolve
    \/ DocumentsRemove
    \/ DocumentsClearAll
    \/ HandleSubmit
    \/ SubmitResponse
    \/ ScreenHandleReset

(***************************************************************************)
(* Specifications: one control runs, the others stay as constructed        *)
(***************************************************************************)

CounterParked == InitCounter /\ hasOnComplete = FALSE
FilesParked == InitFiles /\ required = FALSE /\ allowedTypes = <<AnyType>>
TextParked == InitText /\ externalValue = Undefined /\ validators = <<RequiredRule>>

ValidateParked == InitValidate /\ vText = <<>> /\ vRules = <<>>
DateParked ==
    /\ InitDate
    /\ dateFormat = "DD/MM/YYYY"
    /\ dateRequired = FALSE
    /\ minDate = NoDate
    /\ tzWest = FALSE
    /\ constHoisted = FALSE
ConfigParked == InitConfig /\ durationSec = Num(DefaultDuration) /\ targetNumber = Num(0)
ScreenParked == ScreenAsMounted

InitSpecCounter == InitCounter /\ FilesParked /\ TextParked /\ ValidateParked /\ DateParked /\ ConfigParked /\ ScreenParked
SpecCounter == InitSpecCounter /\ [][NextCounter]_vars

\* the JS event loop runs every call posted with runOnJS
SpecCounterFair == SpecCounter /\ WF_vars(DeliverJS)

InitSpecFiles == InitFiles /\ CounterParked /\ TextParked /\ ValidateParked /\ DateParked /\ ConfigParked /\ ScreenParked
SpecFiles == InitSpecFiles /\ [][NextFiles]_vars

InitSpecText == InitText /\ CounterParked /\ FilesParked /\ ValidateParked /\ DateParked /\ ConfigParked /\ ScreenParked
SpecText == InitSpecText /\ [][NextText]_vars

InitSpecValidate ==
    InitValidate /\ CounterParked /\ FilesParked /\ TextParked /\ DateParked /\ ConfigParked /\ ScreenParked
SpecValidate == InitSpecValidate /\ [][NextValidate]_vars

InitSpecDate == InitDate /\ CounterParked /\ FilesParked /\ TextParked /\ ValidateParked /\ ConfigParked /\ ScreenParked
SpecDate == InitSpecDate /\ [][NextDate]_vars

InitSpecDateFn ==
    InitDateFn /\ CounterParked /\ FilesParked /\ TextParked /\ ValidateParked /\ ConfigParked /\ ScreenParked
SpecDateFn == InitSpecDateFn /\ [][NextDateFn]_vars

InitSpecConfig ==
    InitConfig /\ CounterParked /\ FilesParked /\ TextParked /\ ValidateParked /\ DateParked /\ ScreenParked
SpecConfig == InitSpecConfig /\ [][NextConfig]_vars

InitSpecScreen == InitScreen /\ CounterParked /\ ValidateParked /\ ConfigParked
SpecScreen == InitSpecScreen /\ [][NextScreen]_vars

(***************************************************************************)
(* Properties of FilePicker                                                *)
(***************************************************************************)

\* C3: starting from an empty list, in every state (so after every committed add, remove
\* and clear, also with a picker call waiting over older files) there are at most maxFiles
\* files and their sizes sum to at most maxTotalSize.
C3_FileLimitsHold ==
    /\ Len(files) <= MaxFiles
    /\ SumSizes(files) <= MaxTotalSize

C3_Witness ==
    /\ fLastOp = "pickResolve"
    /\ files # fBefore.files
    /\ lastPick.tentativeCount > MaxFiles
    /\ Len(files) = MaxFiles
    /\ SumSizes(files) = MaxTotalSize

\* C4: an add whose candidates all pass the per-candidate filtering and that brings the
\* count above maxFiles is rejected as a whole: files is left unchanged and error is
\* "Maximum N file(s) allowed".
C4_OverCountAddRejected ==
    (/\ fLastOp = "pickResolve"
     /\ lastPick.nAssets > 0
     /\ lastPick.nNew = lastPick.nAssets
     /\ lastPick.tentativeCount > MaxFiles)
    => (files = fBefore.files /\ error = ErrMaxFiles)

C20_OneDroppedOtherCommitted ==
    (/\ fLastOp = "pickResolve"
     /\ Len(lastPick.assets) = 2)
    => \A i \in 1..2 :
          LET dropped == lastPick.assets[i]
              other == lastPick.assets[3 - i]
          IN (/\ ~Survives(dropped)
              /\ Survives(other)
              /\ Len(lastPick.closed) + 1 <= MaxFiles
              /\ SumSizes(lastPick.closed) + other.size <= MaxTotalSize)
             => /\ files = lastPick.closed \o <<other>>
                /\ reported = files
                /\ error = ErrNone

C20_Witness ==
    /\ fLastOp = "pickResolve"
    /\ Len(lastPick.assets) = 2
    /\ ~Survives(lastPick.assets[1])
    /\ Survives(lastPick.assets[2])
    /\ lastPick.closed # <<>>
    /\ fBefore.error # ErrNone
    /\ files = lastPick.closed \o <<lastPick.assets[2]>>
    /\ error = ErrNone

\* C21: while a handlePickFiles call waits for the picker, no other step (remove, clear, a
\* second handlePickFiles call) changes the picker's state; the next change is made by the
\* waiting call itself when the picker has answered.
C21_SingleInFlightPicker ==
    [][(pending.open /\ fLastOp' \notin {"pickResolve", "pickNothing"})
          => UNCHANGED <<files, error, isTouched, reported>>]_vars

\* C33: handleRemoveFile with a valid index deletes exactly that entry and keeps the order
\* of the others, passes the new list to the parent, and validates the remainder: the
\* error is empty whenever the remainder is within the count and the total-size limit.
C33_RemoveRevalidates ==
    fLastOp = "remove" =>
        /\ \E index \in 1..Len(fBefore.files) : files = WithoutIndex(fBefore.files, index)
        /\ reported = files
        /\ (Len(files) <= MaxFiles /\ SumSizes(files) <= MaxTotalSize) => error = ErrNone

\* C34: from every state handleClearAll leaves files empty and the error empty, also with
\* required set and after a rejected add, and passes the empty list to the parent.
C34_ClearEmptiesFilesAndError ==
    fLastOp = "clear" => (files = <<>> /\ error = ErrNone /\ reported = <<>>)

\* a clear of a required, non-empty list that shows the error of a rejected add
C34_Witness ==
    /\ fLastOp = "clear"
    /\ required
    /\ fBefore.files # <<>>
    /\ fBefore.error # ErrNone
    /\ files = <<>>
    /\ error = ErrNone

\* C37: no lost updates: every file of a list that handlePickFiles commits was in the
\* list just before the commit or is one of the assets the picker returned, so a file
\* removed or cleared while the picker was open does not come back.
C37_NoLostUpdates ==
    (fLastOp = "pickResolve" /\ files # fBefore.files) =>
        \A i \in 1..Len(files) :
            \/ \E j \in 1..Len(fBefore.files) : files[i] = fBefore.files[j]
            \/ \E j \in 1..Len(lastPick.assets) : files[i] = lastPick.assets[j]

(***************************************************************************)
(* Properties of CustomTextInput                                           *)
(***************************************************************************)

\* the messages shown under the input
Shown == IF HasError THEN errors ELSE <<>>

\* C10: with a required rule, hasError is false until the first blur, whatever is typed
\* and deleted; right after a blur with the value empty, hasError is true and the required
\* rule's message is shown (it is the only one when required is the only rule).
C10_RequiredShownOnlyAfterBlur ==
    (\E i \in 1..Len(validators) : validators[i].type = "required") =>
        /\ ~everBlurred => ~HasError
        /\ (tLastOp = "blur" /\ Value = <<>>) =>
              /\ HasError
              /\ \E k \in 1..Len(Shown) : Shown[k] = RequiredRule.message
              /\ validators = <<RequiredRule>> => Shown = <<RequiredRule.message>>

C10_Witness ==
    /\ validators = <<RequiredRule>>
    /\ tLastOp = "blur"
    /\ Value = <<>>
    /\ formValue # <<>>
    /\ Shown = <<"required">>

\* the current value passes every configured rule
SatisfiesRules == \A i \in 1..Len(validators) : ~Fails(validators[i], Value)

\* C11: in every state (touched or not, controlled or not, after typed changes, blurs and
\* values pushed in by the form) errors is empty if and only if the current value passes
\* every configured rule.
C11_ErrorsEmptyIffValid == (errors = <<>>) <=> SatisfiesRules

\* the rules of the array that the text fails, by position
FailingRules(text, rules) == {i \in 1..Len(rules) : Fails(rules[i], text)}
\* the position of the k-th failing rule
NthFailing(text, rules, k) ==
    CHOOSE i \in FailingRules(text, rules) :
        Cardinality({j \in FailingRules(text, rules) : j < i}) = k - 1

\* C12: for every text v and validators R, validate returns exactly the messages of the
\* rules of R that v fails, in the order of R, one per failing rule whatever failed before
\* it; so the result is empty iff v passes every rule of R.
C12_ValidateListsFailingRulesInOrder ==
    vResult.called =>
        /\ Len(vResult.errors) = Cardinality(FailingRules(vText, vRules))
        /\ \A k \in 1..Len(vResult.errors) :
              vResult.errors[k] = vRules[NthFailing(vText, vRules, k)].message
        /\ (vResult.errors = <<>>) <=> (\A i \in 1..Len(vRules) : ~Fails(vRules[i], vText))

C12_Witness ==
    /\ vResult.called
    /\ vRules = <<MinLengthRule(2), RequiredRule>>
    /\ vText = <<>>
    /\ vResult.errors = <<"minLength", "required">>

\* C13: right after every text change and every blur the form holds the current value and
\* the validity of that value (onValidate was called with errors-empty for it), also for
\* changes made before the first blur.
C13_EmitsValueAndValidity ==
    tLastOp \in {"change", "blur"} =>
        /\ tLastOp = "change" => formValue = Value
        /\ formValid = Flag(SatisfiesRules)

\* C14: the input never switches between controlled and uncontrolled, whatever value props
\* the form supplies later.
C14_ModeFixed == [][IsControlled' = IsControlled]_vars

\* C29: once the input is touched, right after every change of its value, typed by the user
\* or pushed in by the form while the input is controlled, errors is validate of the new
\* value.
C29_RevalidatedWhileTouched ==
    (/\ isTouchedText
     /\ \/ tLastOp = "change"
        \/ tLastOp = "parent" /\ IsControlled)
    => errors = Validate(Value)

(***************************************************************************)
(* Properties of CalendarPicker                                            *)
(***************************************************************************)

\* C15: for each of the three formats and every existing calendar date d,
\* parseDate(formatDate(d)) is the same year, month and day.
C15_RoundTrip ==
    dfOut.fn = "roundtrip" =>
        /\ dfOut.date.valid
        /\ dfOut.date.y = dfInput.date.y
        /\ dfOut.date.m = dfInput.date.m
        /\ dfOut.date.d = dfInput.date.d

\* year, month (from 1) and day name a day of the calendar
IsCalendarDate(year, month, day) ==
    /\ month \in 1..12
    /\ day >= 1
    /\ day <= DaysInMonth(year, month - 1)

\* C16: parseDate returns null whenever the day, month and year read from the text do not
\* name an existing calendar date (day 31 of a 30-day month, 30 or 31 February, 29 February
\* of a non-leap year, month 13, day or month 0); a Date it returns is the very day, month
\* and year read, never a rolled-over one.
C16_NoRolledOverDate ==
    (dfOut.fn = "parse" /\ Len(Split(dfOut.text, Separator(dateFormat))) = 3) =>
        LET c == Components(Split(dfOut.text, Separator(dateFormat)), dateFormat)
            exists == /\ ~c.day.nan /\ ~c.month.nan /\ ~c.year.nan
                      /\ IsCalendarDate(c.year.n, c.month.n + 1, c.day.n)
        IN /\ ~exists => dfOut.date = NoDate
           /\ dfOut.date.valid =>
                /\ dfOut.date.y = c.year.n
                /\ dfOut.date.m = c.month.n
                /\ dfOut.date.d = c.day.n

C16_Witness ==
    /\ dfOut.fn = "parse"
    /\ dateFormat = "DD/MM/YYYY"
    /\ dfOut.text = <<"3", "1", "/", "0", "2", "/", "2", "0", "2", "4">>
    /\ dfOut.date = NoDate

\* the message of the first check the text fails, in the order required, parseable,
\* not before minDate, not after maxDate
FirstFailure(text) ==
    LET blank == Trim(text) = <<>>
        date == ParseDate(text)
        failsRequired == dateRequired /\ blank
        failsParse == ~blank /\ ~date.valid
        failsMin == ~blank /\ date.valid /\ minDate.valid /\ Before(date, minDate)
        failsMax == ~blank /\ date.valid /\ maxDate.valid /\ Before(maxDate, date)
    IN CASE failsRequired -> "Date is required"
         [] ~failsRequired /\ failsParse -> "Invalid date format. Use F"
         [] ~failsRequired /\ ~failsParse /\ failsMin -> "Date must be after D"
         [] ~failsRequired /\ ~failsParse /\ ~failsMin /\ failsMax -> "Date must be before D"
         [] OTHER -> ""

\* C17: validateDate reports one message, that of the first failing check in the order
\* required, parseable, date >= minDate, date <= maxDate; with minDate 2025-01-01 and
\* maxDate 2025-12-31 the text 15/13/2025 gets the format message and the text 01/01/2024
\* gets the min-date message.
C17_FirstFailureWins ==
    dfOut.fn = "validate" =>
        /\ dfOut.error.msg = FirstFailure(dfOut.text)
        /\ (/\ dateFormat = "DD/MM/YYYY"
            /\ minDate = DateAt(2025, 0, 1, 0)
            /\ maxDate = DateAt(2025, 11, 31, 0)) =>
              /\ dfOut.text = <<"1", "5", "/", "1", "3", "/", "2", "0", "2", "5">>
                    => dfOut.error = [msg |-> "Invalid date format. Use F",
                                      arg |-> <<"DD/MM/YYYY">>]
              /\ dfOut.text = <<"0", "1", "/", "0", "1", "/", "2", "0", "2", "4">>
                    => dfOut.error = [msg |-> "Date must be after D",
                                      arg |-> <<"0", "1", "/", "0", "1", "/", "2", "0", "2", "5">>]

C17_Witness ==
    /\ dfOut.fn = "validate"
    /\ dateFormat = "DD/MM/YYYY"
    /\ dateRequired
    /\ minDate = DateAt(2025, 0, 1, 0)
    /\ dfOut.text = <<"0", "1", "/", "0", "1", "/", "2", "0", "2", "4">>
    /\ dfOut.error.msg = "Date must be after D"

\* C18: right after the user presses a day the calendar offers, the text is that day in
\* the configured format, error is empty, the form holds that text, and validateDate of
\* the text under the field's own required, minDate and maxDate reports no error.
C18_SelectionIsValidCanonical ==
    dLastOp = "select" =>
        /\ textValue = FormatDate(DateAt(dLastDay.y, dLastDay.m, dLastDay.d, 0))
        /\ dateError = NoError
        /\ startDate = textValue
        /\ ValidateDate(textValue) = NoError

\* the part is a decimal number and nothing else
WhollyDecimal(part) == part # <<>> /\ \A k \in 1..Len(part) : part[k] \in Digits

\* C30: in each format, parseDate returns null for every text that does not consist of
\* exactly three parts between separators, and for every text with a part that is not
\* wholly a decimal number (such as 12ab).
C30_MalformedTextRejected ==
    dfOut.fn = "parse" =>
        LET parts == Split(dfOut.text, Separator(dateFormat))
        IN (\/ Len(parts) # 3
            \/ \E i \in 1..Len(parts) : ~WhollyDecimal(parts[i]))
           => dfOut.date = NoDate

\* C22 (date field): no handler of the date field ends with an exception that leaves the
\* handler; a failure only sets the error value.
C22_NoHandlerRaises == ~dRaised

\* C19: right after a manual text change whose text has no validation error, the form
\* holds the text shown in the field.
C19_ValidTextReachesForm ==
    (dLastOp = "change" /\ ValidateDate(textValue) = NoError) => startDate = textValue

\* C31: the min bound is inclusive on calendar days: for a text that parses to a date,
\* validation (here by handleBlur) reports the min-date error exactly when the day of the
\* date lies strictly before the day minDate falls on, whatever the time of day of
\* minDate; the first day the calendar offers is accepted when typed.
C31_MinBoundInclusiveOnDays ==
    (dLastOp = "blur" /\ minDate.valid /\ ParseDate(textValue).valid) =>
        (dateError = ErrDateMin
            <=> ~DayLeq(ToCalendarFormat(minDate), ToCalendarFormat(ParseDate(textValue))))

\* C32: handleClear empties the text and the error, passes the empty text to the form and
\* leaves touched as it was; it does not run the required check: with required set there
\* is no "Date is required" error from a clear until the next blur or selection.
C32_ClearSkipsRequiredCheck ==
    [][/\ dLastOp' = "clear" =>
             /\ textValue' = <<>>
             /\ dateError' = NoError
             /\ startDate' = <<>>
             /\ isTouchedDate' = isTouchedDate
       /\ (dCleared' /\ dateRequired) => dateError' # ErrDateRequired]_vars

\* C36: every text that parseDate accepts is in canonical form: formatting the Date it
\* returns gives the text back.
C36_AcceptedTextIsCanonical ==
    (dfOut.fn = "parse" /\ dfOut.date.valid) => FormatDate(dfOut.date) = dfOut.text

(***************************************************************************)
(* Properties of OnboardingScreen                                          *)
(***************************************************************************)

\* every field valid under the rules it is given
FieldsValid ==
    /\ ValidateRules(formValue, NameValidators) = <<>>
    /\ ValidateRules(email, EmailValidators) = <<>>
    /\ Len(Trim(startDate)) > 0
    /\ Len(reported) > 0

\* C35: the screen sends a submission only when every field is valid under its own
\* rules (name required with 2..100 characters, email required and well-formed, start
\* date not empty, at least one document), whatever edits, blurs and resets came before.
C35_SubmitsOnlyValidForm ==
    [][(isSubmitting' /\ ~isSubmitting) => FieldsValid]_vars

\* C38: between handlers the files the picker shows are the documents of the screen, and
\* the text of the date field is the start date of the screen whenever the field has no
\* error, also after submissions and the screen's reset.
C38_FormAndFieldsAgree ==
    (~pending.open /\ ~isSubmitting) =>
        /\ files = reported
        /\ dateError = NoError => textValue = startDate

(***************************************************************************)
(* Properties of validTarget and validDuration                             *)
(***************************************************************************)

\* C28: for every numeric durationSec the duration in effect is durationSec clamped to
\* [0.1 s, 3600 s] (0 and negative values give 0.1 s, values above 3600 give 3600 s), and
\* for every numeric targetNumber the target in effect is max(0, targetNumber).
C28_ConfigurationClamped ==
    /\ (cfgOut.durationDone /\ ~durationSec.nan) =>
          cfgOut.duration = (IF durationSec.n < MinDuration THEN MinDuration
                             ELSE IF durationSec.n > MaxDuration THEN MaxDuration
                             ELSE durationSec.n)
    /\ (cfgOut.targetDone /\ ~targetNumber.nan) =>
          cfgOut.target = (IF targetNumber.n < 0 THEN 0 ELSE targetNumber.n)

====
